---- MODULE Spec2Model ----
(***************************************************************************)
(* PDF Text Extractor (PDFGUI1.py): the drop handler DragDropArea.dropEvent,*)
(* the intake MainWindow.add_file and MainWindow.clear_all, as a state      *)
(* machine.  Strings (paths, page texts, the accumulated text) are          *)
(* sequences of one-character strings, so that lower(), endswith(),         *)
(* split("/") and += are computed and not assumed.                          *)
(***************************************************************************)
EXTENDS Naturals, Sequences, FiniteSets

VARIABLES
    files_data,   \* MainWindow.files_data: sequence of <<file_path, text>>
    text_layout,  \* MainWindow.text_layout: sequence of layout items
    pc,           \* position of the (single) GUI thread
    handler,      \* top-level handler in progress: "none", "dropEvent", "add_file"
    urls,         \* dropEvent: the local files of event.mimeData().urls()
    pdf_files,    \* dropEvent: the filtered list
    idx,          \* dropEvent: position of the for loop in pdf_files (1-based)
    file_path,    \* add_file: the argument
    handles,      \* file objects currently open (stack of `with` blocks)
    text,         \* add_file: the accumulated text
    page_num,     \* add_file: the loop variable (0-based, as in the source)
    exc,          \* add_file: the exception being handled
    dialog,       \* the modal QMessageBox on screen, or NoDialog
    reports,      \* history: message boxes shown by the handler in progress
    opens,        \* history: paths passed to open() by the handler in progress
    start,        \* history: the session when the handler in progress began
    before,       \* history: the session when the latest add_file call began
    removed       \* history: widgets removed by clear_all, if it ran last

vars == <<files_data, text_layout, pc, handler, urls, pdf_files, idx, file_path,
          handles, text, page_num, exc, dialog, reports, opens, start, before,
          removed>>

(***************************************************************************)
(* Bounds of the model.                                                    *)
(***************************************************************************)
MaxDocs == 4      \* documents held in the session
MaxBatch == 3     \* paths in one drop

(***************************************************************************)
(* The file system the program reads: paths and what open(), PdfReader()   *)
(* and extract_text() do on each.                                          *)
(***************************************************************************)
P_a == <<"d", "/", "a", ".", "p", "d", "f">>   \* two pages, both extract
P_Z == <<"Z", ".", "P", "D", "F">>             \* upper-case extension, zero pages
P_c == <<"c", ".", "p", "d", "f">>             \* PdfReader raises
P_h == <<"h", ".", "p", "d", "f">>             \* page 0 extracts, page 1 raises
P_m == <<"m", ".", "p", "d", "f">>             \* no such file
P_n == <<"p", "d", "f">>                       \* a PDF stored without extension

Paths == {P_a, P_Z, P_c, P_h, P_m, P_n}

Page(ok, t) == [ok |-> ok, text |-> t]

File(exists, parses, pages) == [exists |-> exists, parses |-> parses, pages |-> pages]

FS(path) ==
    CASE path = P_a -> File(TRUE, TRUE, <<Page(TRUE, <<"x", "y">>), Page(TRUE, <<"z">>)>>)
      [] path = P_Z -> File(TRUE, TRUE, <<>>)
      [] path = P_c -> File(TRUE, FALSE, <<>>)
      [] path = P_h -> File(TRUE, TRUE, <<Page(TRUE, <<"u">>), Page(FALSE, <<>>)>>)
      [] path = P_n -> File(TRUE, TRUE, <<Page(TRUE, <<"w">>)>>)
      [] OTHER -> File(FALSE, FALSE, <<>>)

\* Exceptions, by what str(e) shows: the message, and the file name when the
\* exception carries one (OSError does, PyPDF2's errors do not).
NoExc == [type |-> "", strerror |-> "", filename |-> <<>>]

OpenError(path) ==
    [type |-> "FileNotFoundError", strerror |-> "No such file or directory",
     filename |-> path]

ReaderError == [type |-> "PdfReadError", strerror |-> "EOF marker not found", filename |-> <<>>]

ExtractError == [type |-> "PdfReadError", strerror |-> "Unexpected end of stream", filename |-> <<>>]

(***************************************************************************)
(* String helpers.                                                         *)
(***************************************************************************)
LowerChar(c) ==
    CASE c = "P" -> "p"
      [] c = "D" -> "d"
      [] c = "F" -> "f"
      [] c = "Z" -> "z"
      [] OTHER -> c

Lower(s) == [i \in 1..Len(s) |-> LowerChar(s[i])]

EndsWith(s, suffix) ==
    /\ Len(s) >= Len(suffix)
    /\ SubSeq(s, Len(s) - Len(suffix) + 1, Len(s)) = suffix

PdfExt == <<".", "p", "d", "f">>

IsPdf(path) == EndsWith(Lower(path), PdfExt)

\* file_path.split("/")[-1]
LastSegment(s) ==
    LET slashes == {i \in 1..Len(s) : s[i] = "/"}
    IN  IF slashes = {} THEN s
        ELSE LET last == CHOOSE i \in slashes : \A j \in slashes : j <= i
             IN  SubSeq(s, last + 1, Len(s))

FileLabel(path) == <<"F", "i", "l", "e", ":", " ">> \o LastSegment(path)

Container(path, t) == [file_label |-> FileLabel(path), text_edit |-> t]

NoWidget == [file_label |-> <<>>, text_edit |-> <<>>]

RemoveAt(s, i) == SubSeq(s, 1, i - 1) \o SubSeq(s, i + 1, Len(s))

(***************************************************************************)
(* Message boxes.                                                          *)
(***************************************************************************)
NoDialog == [icon |-> "", title |-> "", text |-> "", detail |-> NoExc]

WarningBox ==
    [icon |-> "warning", title |-> "Invalid File",
     text |-> "Please drop only PDF files.", detail |-> NoExc]

CriticalBox(e) ==
    [icon |-> "critical", title |-> "Error",
     text |-> "Failed to read PDF file.", detail |-> e]

(***************************************************************************)
(* Initial state: MainWindow.__init__.                                     *)
(***************************************************************************)
Session == [files_data |-> files_data, text_layout |-> text_layout]

EmptySession == [files_data |-> <<>>, text_layout |-> <<>>]

Init ==
    /\ files_data = <<>>
    /\ text_layout = <<>>
    /\ pc = "idle"
    /\ handler = "none"
    /\ urls = <<>>
    /\ pdf_files = <<>>
    /\ idx = 0
    /\ file_path = <<>>
    /\ handles = <<>>
    /\ text = <<>>
    /\ page_num = 0
    /\ exc = NoExc
    /\ dialog = NoDialog
    /\ reports = <<>>
    /\ opens = <<>>
    /\ start = EmptySession
    /\ before = EmptySession
    /\ removed = 0

Batches == UNION {[1..n -> Paths] : n \in 0..MaxBatch}

\* The handler in progress returns to the event loop: its locals and the
\* histories kept for it are gone.
ToIdle ==
    /\ pc' = "idle"
    /\ handler' = "none"
    /\ urls' = <<>>
    /\ pdf_files' = <<>>
    /\ idx' = 0
    /\ file_path' = <<>>
    /\ text' = <<>>
    /\ page_num' = 0
    /\ exc' = NoExc
    /\ dialog' = NoDialog
    /\ reports' = <<>>
    /\ opens' = <<>>
    /\ start' = EmptySession
    /\ before' = EmptySession

\* add_file returns to its caller.
AddFileReturn ==
    IF handler = "dropEvent"
    THEN /\ pc' = "drop_loop"
         /\ file_path' = <<>>
         /\ text' = <<>>
         /\ page_num' = 0
         /\ exc' = NoExc
         /\ dialog' = NoDialog
         /\ UNCHANGED <<handler, urls, pdf_files, idx, reports, opens, start, before>>
    ELSE ToIdle

(***************************************************************************)
(* DragDropArea.dropEvent                                                  *)
(***************************************************************************)
\* Faulty variants of the filter: none at all; endswith without lower().
PdfFiles_NoFilter(u) == u

PdfFiles_CaseSensitive(u) ==
    LET Keep(p) == EndsWith(p, PdfExt) IN SelectSeq(u, Keep)

PdfFiles(u) == SelectSeq(u, IsPdf)

DropEvent(u) ==
    /\ pc = "idle"
    /\ Len(files_data) + Len(u) <= MaxDocs
    /\ handler' = "dropEvent"
    /\ urls' = u
    /\ pdf_files' = PdfFiles(u)
    /\ start' = Session
    /\ before' = EmptySession
    /\ opens' = <<>>
    /\ removed' = 0
    /\ IF PdfFiles(u) = <<>>
       THEN /\ dialog' = WarningBox
            /\ reports' = <<WarningBox>>
            /\ pc' = "drop_msgbox"
            /\ idx' = 0
       ELSE /\ dialog' = NoDialog
            /\ reports' = <<>>
            /\ pc' = "drop_loop"
            /\ idx' = 1
    /\ UNCHANGED <<files_data, text_layout, file_path, handles, text, page_num, exc>>

DismissWarning ==
    /\ pc = "drop_msgbox"
    /\ ToIdle
    /\ UNCHANGED <<files_data, text_layout, handles, removed>>

DropNext ==
    /\ pc = "drop_loop"
    /\ idx <= Len(pdf_files)
    /\ file_path' = pdf_files[idx]
    /\ idx' = idx + 1
    /\ before' = Session
    /\ pc' = "add_open"
    /\ UNCHANGED <<files_data, text_layout, handler, urls, pdf_files, handles, text,
                   page_num, exc, dialog, reports, opens, start, removed>>

DropAccept ==
    /\ pc = "drop_loop"
    /\ idx > Len(pdf_files)
    /\ ToIdle
    /\ UNCHANGED <<files_data, text_layout, handles, removed>>

(***************************************************************************)
(* MainWindow.add_file                                                     *)
(***************************************************************************)
AddFileDirect(p) ==
    /\ pc = "idle"
    /\ Len(files_data) < MaxDocs
    /\ handler' = "add_file"
    /\ file_path' = p
    /\ start' = Session
    /\ before' = Session
    /\ reports' = <<>>
    /\ opens' = <<>>
    /\ removed' = 0
    /\ pc' = "add_open"
    /\ UNCHANGED <<files_data, text_layout, urls, pdf_files, idx, handles, text,
                   page_num, exc, dialog>>

CloseFile == handles' = SubSeq(handles, 1, Len(handles) - 1)

AddOpen ==
    /\ pc = "add_open"
    /\ opens' = Append(opens, file_path)
    /\ IF FS(file_path).exists
       THEN /\ handles' = Append(handles, file_path)
            /\ pc' = "add_reader"
            /\ exc' = exc
       ELSE /\ exc' = OpenError(file_path)
            /\ pc' = "add_except"
            /\ handles' = handles
    /\ UNCHANGED <<files_data, text_layout, handler, urls, pdf_files, idx, file_path,
                   text, page_num, dialog, reports, start, before, removed>>

AddReader ==
    /\ pc = "add_reader"
    /\ IF FS(file_path).parses
       THEN /\ text' = <<>>
            /\ page_num' = 0
            /\ pc' = "add_loop"
            /\ UNCHANGED <<handles, exc>>
       ELSE /\ exc' = ReaderError
            /\ CloseFile
            /\ pc' = "add_except"
            /\ UNCHANGED <<text, page_num>>
    /\ UNCHANGED <<files_data, text_layout, handler, urls, pdf_files, idx, file_path,
                   dialog, reports, opens, start, before, removed>>

\* Faulty variants of the loop body: a failed page is skipped; no newline is
\* added; the file stays open when a page fails.
AddPage_SkipFailed ==
    /\ pc = "add_loop"
    /\ page_num < Len(FS(file_path).pages)
    /\ LET page == FS(file_path).pages[page_num + 1]
       IN  /\ text' = IF page.ok THEN text \o page.text \o <<"\n">> ELSE text
           /\ page_num' = page_num + 1
           /\ UNCHANGED <<pc, handles, exc>>
    /\ UNCHANGED <<files_data, text_layout, handler, urls, pdf_files, idx, file_path,
                   dialog, reports, opens, start, before, removed>>

AddPage_NoSeparator ==
    /\ pc = "add_loop"
    /\ page_num < Len(FS(file_path).pages)
    /\ LET page == FS(file_path).pages[page_num + 1]
       IN  IF page.ok
           THEN /\ text' = text \o page.text
                /\ page_num' = page_num + 1
                /\ UNCHANGED <<pc, handles, exc>>
           ELSE /\ exc' = ExtractError
                /\ CloseFile
                /\ pc' = "add_except"
                /\ UNCHANGED <<text, page_num>>
    /\ UNCHANGED <<files_data, text_layout, handler, urls, pdf_files, idx, file_path,
                   dialog, reports, opens, start, before, removed>>

AddPage_LeakOnError ==
    /\ pc = "add_loop"
    /\ page_num < Len(FS(file_path).pages)
    /\ LET page == FS(file_path).pages[page_num + 1]
       IN  IF page.ok
           THEN /\ text' = text \o page.text \o <<"\n">>
                /\ page_num' = page_num + 1
                /\ UNCHANGED <<pc, handles, exc>>
           ELSE /\ exc' = ExtractError
                /\ pc' = "add_except"
                /\ UNCHANGED <<text, page_num, handles>>
    /\ UNCHANGED <<files_data, text_layout, handler, urls, pdf_files, idx, file_path,
                   dialog, reports, opens, start, before, removed>>

AddPage ==
    /\ pc = "add_loop"
    /\ page_num < Len(FS(file_path).pages)
    /\ LET page == FS(file_path).pages[page_num + 1]
       IN  IF page.ok
           THEN /\ text' = text \o page.text \o <<"\n">>
                /\ page_num' = page_num + 1
                /\ UNCHANGED <<pc, handles, exc>>
           ELSE /\ exc' = ExtractError
                /\ CloseFile
                /\ pc' = "add_except"
                /\ UNCHANGED <<text, page_num>>
    /\ UNCHANGED <<files_data, text_layout, handler, urls, pdf_files, idx, file_path,
                   dialog, reports, opens, start, before, removed>>

AddClose ==
    /\ pc = "add_loop"
    /\ page_num >= Len(FS(file_path).pages)
    /\ CloseFile
    /\ pc' = "add_display"
    /\ UNCHANGED <<files_data, text_layout, handler, urls, pdf_files, idx, file_path,
                   text, page_num, exc, dialog, reports, opens, start, before, removed>>

\* Faulty variant: a path already held is not added again.
AddDisplay_Dedup ==
    /\ pc = "add_display"
    /\ LET old == {i \in 1..Len(files_data) : files_data[i][1] = file_path}
       IN  IF old = {}
           THEN /\ text_layout' = Append(text_layout, [widget |-> Container(file_path, text)])
                /\ files_data' = Append(files_data, <<file_path, text>>)
           ELSE UNCHANGED <<text_layout, files_data>>
    /\ AddFileReturn
    /\ UNCHANGED <<handles, removed>>

AddDisplay ==
    /\ pc = "add_display"
    /\ text_layout' = Append(text_layout, [widget |-> Container(file_path, text)])
    /\ files_data' = Append(files_data, <<file_path, text>>)
    /\ AddFileReturn
    /\ UNCHANGED <<handles, removed>>

\* Faulty variants of the except clause: nothing is shown; a panel is added
\* for the failed file.
AddExcept_Swallow ==
    /\ pc = "add_except"
    /\ pc' = "add_msgbox"
    /\ UNCHANGED <<files_data, text_layout, handler, urls, pdf_files, idx, file_path,
                   handles, text, page_num, exc, dialog, reports, opens, start, before,
                   removed>>

AddExcept_ShowsPanel ==
    /\ pc = "add_except"
    /\ dialog' = CriticalBox(exc)
    /\ reports' = Append(reports, CriticalBox(exc))
    /\ text_layout' = Append(text_layout, [widget |-> Container(file_path, text)])
    /\ pc' = "add_msgbox"
    /\ UNCHANGED <<files_data, handler, urls, pdf_files, idx, file_path,
                   handles, text, page_num, exc, opens, start, before, removed>>

AddExcept ==
    /\ pc = "add_except"
    /\ dialog' = CriticalBox(exc)
    /\ reports' = Append(reports, CriticalBox(exc))
    /\ pc' = "add_msgbox"
    /\ UNCHANGED <<files_data, text_layout, handler, urls, pdf_files, idx, file_path,
                   handles, text, page_num, exc, opens, start, before, removed>>

\* Faulty variant: the failure ends the whole drop.
DismissCritical_Abort ==
    /\ pc = "add_msgbox"
    /\ ToIdle
    /\ UNCHANGED <<files_data, text_layout, handles, removed>>

DismissCritical ==
    /\ pc = "add_msgbox"
    /\ AddFileReturn
    /\ UNCHANGED <<files_data, text_layout, handles, removed>>

(***************************************************************************)
(* MainWindow.clear_all                                                    *)
(***************************************************************************)
\* Faulty variant: range(count) walked upwards, so that removing item i
\* shifts the rest down and every other item is skipped.
ClearLoop_Forward(layout, n) ==
    LET RECURSIVE Up(_, _)
        Up(l, i) ==
            IF i > n \/ i > Len(l) THEN l
            ELSE Up(IF l[i].widget # NoWidget THEN RemoveAt(l, i) ELSE l, i + 1)
    IN  Up(layout, 1)

RECURSIVE ClearLoop(_, _)
ClearLoop(layout, i) ==
    IF i < 1 THEN layout
    ELSE ClearLoop(IF layout[i].widget # NoWidget THEN RemoveAt(layout, i) ELSE layout,
                   i - 1)

ClearAll ==
    /\ pc = "idle"
    /\ text_layout' = ClearLoop(text_layout, Len(text_layout))
    /\ files_data' = <<>>
    /\ removed' = Len(text_layout) - Len(text_layout')
    /\ UNCHANGED <<pc, handler, urls, pdf_files, idx, file_path, handles, text,
                   page_num, exc, dialog, reports, opens, start, before>>

Next ==
    \/ \E u \in Batches : DropEvent(u)
    \/ DismissWarning
    \/ DropNext
    \/ DropAccept
    \/ \E p \in Paths : AddFileDirect(p)
    \/ AddOpen
    \/ AddReader
    \/ AddPage
    \/ AddClose
    \/ AddDisplay
    \/ AddExcept
    \/ DismissCritical
    \/ ClearAll

Spec == Init /\ [][Next]_vars

(***************************************************************************)
(* Vocabulary of the properties, stated without the program's helpers.     *)
(***************************************************************************)
\* The path ends with ".pdf" in any mix of upper and lower case.
HasPdfExtension(path) ==
    /\ Len(path) >= 4
    /\ path[Len(path) - 3] = "."
    /\ path[Len(path) - 2] \in {"p", "P"}
    /\ path[Len(path) - 1] \in {"d", "D"}
    /\ path[Len(path)] \in {"f", "F"}

\* The file opens, parses, and every page of it extracts.
Extractable(path) ==
    /\ FS(path).exists
    /\ FS(path).parses
    /\ \A k \in 1..Len(FS(path).pages) : FS(path).pages[k].ok

NumPages(path) == Len(FS(path).pages)

\* page_0_text + "\n" + ... + page_(k-1)_text + "\n"
RECURSIVE JoinFirst(_, _)
JoinFirst(path, k) ==
    IF k = 0 THEN <<>>
    ELSE JoinFirst(path, k - 1) \o FS(path).pages[k].text \o <<"\n">>

\* The Documents of the extractable paths of a list, in the list's order.
RECURSIVE DocsOf(_)
DocsOf(paths) ==
    IF paths = <<>> THEN <<>>
    ELSE (IF Extractable(Head(paths))
          THEN <<<<Head(paths), JoinFirst(Head(paths), NumPages(Head(paths)))>>>>
          ELSE <<>>) \o DocsOf(Tail(paths))

Failures(paths) == Cardinality({i \in 1..Len(paths) : ~Extractable(paths[i])})

Criticals(boxes) == Cardinality({i \in 1..Len(boxes) : boxes[i].icon = "critical"})

InAddFile == pc \in {"add_open", "add_reader", "add_loop", "add_display",
                     "add_except", "add_msgbox"}

\* The entries the drop in progress has appended so far.
AppendedByDrop == {i \in 1..Len(files_data) : i > Len(start.files_data)}

(***************************************************************************)
(* C1 as stated: every Document held in the session has a source path that *)
(* ends with ".pdf" case-insensitively and comes from an extraction in     *)
(* which every page extracted; none holds the text of only some pages.     *)
(* A direct add_file of an extensionless PDF refutes the first part.       *)
(***************************************************************************)
C1_AsStated ==
    \A i \in 1..Len(files_data) :
        /\ HasPdfExtension(files_data[i][1])
        /\ Extractable(files_data[i][1])
        /\ \A k \in 0..(NumPages(files_data[i][1]) - 1) :
               files_data[i][2] # JoinFirst(files_data[i][1], k)

(***************************************************************************)
(* C1 amended: in every reachable state every Document held in the session *)
(* comes from a file that opened, parsed and had every page extracted, and *)
(* none holds the text of only some of its pages; every Document appended  *)
(* by a drop has a path ending with ".pdf" case-insensitively (add_file    *)
(* itself checks no extension).                                            *)
(***************************************************************************)
C1_AllOrNothing ==
    /\ \A i \in 1..Len(files_data) :
           /\ Extractable(files_data[i][1])
           /\ \A k \in 0..(NumPages(files_data[i][1]) - 1) :
                  files_data[i][2] # JoinFirst(files_data[i][1], k)
    /\ handler = "dropEvent" =>
           \A i \in AppendedByDrop : HasPdfExtension(files_data[i][1])

\* A drop in which the half-readable file was tried and another was appended.
C1_Witness ==
    /\ handler = "dropEvent"
    /\ pc = "drop_loop"
    /\ \E i \in 1..Len(opens) : opens[i] = P_h
    /\ AppendedByDrop # {}

(***************************************************************************)
(* C2 as stated: for a path not ending in ".pdf", add_file opens no file   *)
(* and appends no Document.  add_file has no extension check: calling it   *)
(* with such a path opens the file.                                        *)
(***************************************************************************)
C2_AsStated ==
    /\ \A i \in 1..Len(opens) : HasPdfExtension(opens[i])
    /\ \A i \in 1..Len(handles) : HasPdfExtension(handles[i])
    /\ \A i \in 1..Len(files_data) : HasPdfExtension(files_data[i][1])

(***************************************************************************)
(* C2 amended: dropEvent rejects every path not ending in ".pdf"           *)
(* (case-insensitive) before any read: during a drop such a path is never  *)
(* passed to add_file, no file is opened for it and no Document is         *)
(* appended for it.                                                        *)
(***************************************************************************)
C2_DropRejectsNonPdf ==
    handler = "dropEvent" =>
        /\ \A i \in 1..Len(pdf_files) : HasPdfExtension(pdf_files[i])
        /\ InAddFile => HasPdfExtension(file_path)
        /\ \A i \in 1..Len(opens) : HasPdfExtension(opens[i])
        /\ \A i \in 1..Len(handles) : HasPdfExtension(handles[i])
        /\ \A i \in AppendedByDrop : HasPdfExtension(files_data[i][1])

\* A finished drop whose batch held a non-PDF path beside PDF paths.
C2_Witness ==
    /\ handler = "dropEvent"
    /\ pc = "drop_loop"
    /\ idx > Len(pdf_files)
    /\ opens # <<>>
    /\ \E i \in 1..Len(urls) : ~HasPdfExtension(urls[i])

(***************************************************************************)
(* C3: for a PDF of N >= 0 pages that all extract, the text of the         *)
(* Document is page_0 + "\n" + ... + page_(N-1) + "\n", the pages visited  *)
(* in increasing order once each (after page_num pages the accumulated     *)
(* text is the join of the first page_num pages); for N = 0 the text is    *)
(* empty.                                                                  *)
(***************************************************************************)
C3_TextIsJoinOfPages ==
    /\ pc = "add_loop" =>
           /\ page_num <= NumPages(file_path)
           /\ text = JoinFirst(file_path, page_num)
    /\ pc = "add_display" => text = JoinFirst(file_path, NumPages(file_path))
    /\ \A i \in 1..Len(files_data) :
           files_data[i][2] = JoinFirst(files_data[i][1], NumPages(files_data[i][1]))

\* The zero-page file is held with empty text beside the two-page file.
C3_Witness ==
    \E i, j \in 1..Len(files_data) :
        /\ files_data[i] = <<P_Z, <<>>>>
        /\ files_data[j] = <<P_a, <<"x", "y", "\n", "z", "\n">>>>

(***************************************************************************)
(* C4: for a ".pdf" file whose open, parse or extraction of any page fails *)
(* (also after earlier pages were extracted), add_file shows the error box *)
(* and leaves the session as it was when the call began: files_data and    *)
(* text_layout are unchanged and no container is added; such a file never  *)
(* reaches the display step.                                               *)
(***************************************************************************)
C4_FailureLeavesSessionUnchanged ==
    /\ (InAddFile /\ ~Extractable(file_path)) =>
           /\ pc # "add_display"
           /\ Session = before
    /\ pc \in {"add_except", "add_msgbox"} =>
           /\ ~Extractable(file_path)
           /\ Session = before
    /\ pc = "add_msgbox" =>
           /\ dialog = CriticalBox(exc)
           /\ reports # <<>>
           /\ reports[Len(reports)] = dialog
    /\ (pc = "drop_loop" /\ idx > 1 /\ ~Extractable(pdf_files[idx - 1])) =>
           /\ Session = before
           /\ reports # <<>>
           /\ reports[Len(reports)].icon = "critical"

\* The error box is up for the file whose second page failed, on a session
\* that already holds a Document.
C4_Witness ==
    /\ pc = "add_msgbox"
    /\ file_path = P_h
    /\ HasPdfExtension(file_path)
    /\ before.files_data # <<>>
    /\ files_data = before.files_data

(***************************************************************************)
(* C5: every path of a dropped batch of PDF paths is processed whether or  *)
(* not earlier ones failed, and the Documents the drop appends are exactly *)
(* the extractable paths, in the order submitted, with one error box per   *)
(* failed path; the drop handler ends only after the last path.            *)
(***************************************************************************)
C5_BetweenFiles ==
    pc = "drop_loop" =>
        /\ idx \in 1..(Len(pdf_files) + 1)
        /\ opens = SubSeq(pdf_files, 1, idx - 1)
        /\ files_data = start.files_data \o DocsOf(SubSeq(pdf_files, 1, idx - 1))
        /\ Criticals(reports) = Failures(SubSeq(pdf_files, 1, idx - 1))

C5_EndOfDrop ==
    (handler = "dropEvent" /\ handler' = "none" /\ pdf_files # <<>>) =>
        /\ opens = pdf_files
        /\ files_data' = start.files_data \o DocsOf(pdf_files)
        /\ Criticals(reports) = Failures(pdf_files)

\* C5: in every state between two files of a drop, and at the step that ends
\* the drop, the batch so far is processed in order with failures isolated.
C5_BatchIsolationAndOrder == [](C5_BetweenFiles) /\ [][C5_EndOfDrop]_vars

\* [a.pdf, bad.pdf, b.pdf] all processed: two Documents in order, one error.
C5_Witness ==
    /\ pc = "drop_loop"
    /\ pdf_files = <<P_a, P_c, P_Z>>
    /\ idx > Len(pdf_files)
    /\ files_data = start.files_data \o
           <<<<P_a, <<"x", "y", "\n", "z", "\n">>>>, <<P_Z, <<>>>>>>
    /\ Len(reports) = 1

(***************************************************************************)
(* C6 as stated: the error report of an intake failure carries the path    *)
(* of the file that failed.  The box shows only the exception's text,      *)
(* which names the file for a failed open and not for a PyPDF2 error.      *)
(***************************************************************************)
C6_AsStated == pc = "add_msgbox" => dialog.detail.filename = file_path

(***************************************************************************)
(* C6 amended: every intake failure is reported exactly once, as one       *)
(* critical box carrying a human-readable message (the fixed text and the  *)
(* exception's text) -- the path of the failed file is in it only when the *)
(* exception's own text names it, which is the failed open; no failure is  *)
(* swallowed, and when the box is dismissed control returns to the drop    *)
(* loop or the event loop, where further files are accepted.               *)
(***************************************************************************)
C6_ReportedOnce ==
    /\ pc = "drop_loop" => Criticals(reports) = Failures(opens)
    /\ pc = "add_except" =>
           /\ exc # NoExc
           /\ Criticals(reports) = Failures(SubSeq(opens, 1, Len(opens) - 1))
    /\ pc = "add_msgbox" =>
           /\ Criticals(reports) = Failures(opens)
           /\ dialog.icon = "critical"
           /\ dialog.text = "Failed to read PDF file."
           /\ dialog.detail = exc
           /\ dialog.detail.strerror # ""
           /\ (dialog.detail.filename = file_path) <=> ~FS(file_path).exists
    /\ pc = "add_open" => Criticals(reports) = Failures(opens)
    /\ pc \in {"add_reader", "add_loop", "add_display"} =>
           Criticals(reports) = Failures(SubSeq(opens, 1, Len(opens) - 1))

C6_SessionGoesOn ==
    pc = "add_msgbox" =>
        /\ pc' \in {"drop_loop", "idle"}
        /\ pc' = "drop_loop" => handler' = "dropEvent" /\ idx' = idx
        /\ UNCHANGED <<files_data, text_layout>>

\* C6 amended: one critical box per failure, and the session goes on.
C6_FailuresReported == [](C6_ReportedOnce) /\ [][C6_SessionGoesOn]_vars

\* Back in the drop loop after a PyPDF2 failure, with a file still to come.
C6_Witness ==
    /\ pc = "drop_loop"
    /\ idx <= Len(pdf_files)
    /\ reports = <<CriticalBox(ReaderError)>>
    /\ opens = <<P_c>>

(***************************************************************************)
(* C7: clear_all from any reachable session leaves zero Documents:         *)
(* files_data is empty and no container remains in text_layout; it raises  *)
(* no error and shows no box; on an empty session it changes nothing of    *)
(* the session, so a second clear is the same as one.  (clear_all is the   *)
(* only step from the event loop back to the event loop.)                  *)
(***************************************************************************)
C7_ClearStep ==
    (pc = "idle" /\ pc' = "idle") =>
        /\ files_data' = <<>>
        /\ text_layout' = <<>>
        /\ removed' = Len(text_layout)
        /\ dialog' = NoDialog /\ reports' = <<>> /\ handles' = handles
        /\ (files_data = <<>> /\ text_layout = <<>>) =>
               UNCHANGED <<files_data, text_layout>>

\* C7: every clear_all step empties the session; on an empty one it is a no-op.
C7_ClearEmptiesSession ==
    [](removed > 0 => (pc = "idle" /\ files_data = <<>> /\ text_layout = <<>>))
    /\ [][C7_ClearStep]_vars

\* clear_all has just emptied a session of more than one Document.
C7_Witness ==
    /\ removed >= 2
    /\ pc = "idle"
    /\ files_data = <<>>
    /\ text_layout = <<>>

(***************************************************************************)
(* C8: each successful intake appends exactly one entry at the end of the  *)
(* session and leaves the existing entries unchanged and in place, also    *)
(* when the path is already held (no deduplication); entries change in no  *)
(* other way except by clear_all.                                          *)
(***************************************************************************)
C8_AppendStep ==
    /\ pc = "add_display" =>
           /\ Len(files_data') = Len(files_data) + 1
           /\ Len(text_layout') = Len(text_layout) + 1
    /\ (files_data' # files_data /\ files_data' # <<>>) =>
           /\ pc = "add_display"
           /\ Len(files_data') = Len(files_data) + 1
           /\ SubSeq(files_data', 1, Len(files_data)) = files_data
           /\ files_data'[Len(files_data')][1] = file_path
    /\ (text_layout' # text_layout /\ text_layout' # <<>>) =>
           /\ pc = "add_display"
           /\ SubSeq(text_layout', 1, Len(text_layout)) = text_layout

\* C8: the session grows only by one entry appended at its end per
\* successful intake, duplicates included; layout and files_data stay in step.
C8_AppendOnlyNoDedup ==
    [](Len(text_layout) = Len(files_data)) /\ [][C8_AppendStep]_vars

\* The same path is held twice.
C8_Witness ==
    \E i, j \in 1..Len(files_data) :
        /\ i < j
        /\ files_data[i][1] = files_data[j][1]
        /\ files_data[i][1] = P_a

(***************************************************************************)
(* C9: dropEvent on a batch with at least one ".pdf" path (any case) shows *)
(* no warning, passes no non-PDF path to intake and passes every PDF path  *)
(* to intake, in order; on a batch with no PDF path it shows exactly one   *)
(* warning, attempts no intake and leaves the session unchanged.           *)
(***************************************************************************)
C9_Filtering ==
    handler = "dropEvent" =>
        IF \A i \in 1..Len(urls) : ~HasPdfExtension(urls[i])
        THEN /\ pc = "drop_msgbox"
             /\ dialog = WarningBox
             /\ reports = <<WarningBox>>
             /\ opens = <<>>
             /\ pdf_files = <<>>
             /\ Session = start
        ELSE /\ pc # "drop_msgbox"
             /\ dialog.icon # "warning"
             /\ \A i \in 1..Len(reports) : reports[i].icon # "warning"
             /\ \A i \in 1..Len(opens) : HasPdfExtension(opens[i])
             /\ Len(opens) <= Len(SelectSeq(urls, HasPdfExtension))
             /\ opens = SubSeq(SelectSeq(urls, HasPdfExtension), 1, Len(opens))
             /\ (pc = "drop_loop" /\ idx > Len(pdf_files)) =>
                    opens = SelectSeq(urls, HasPdfExtension)

C9_WarningStep ==
    /\ pc = "drop_msgbox" => (pc' = "idle" /\ UNCHANGED <<files_data, text_layout>>)
    /\ (handler = "dropEvent" /\ handler' = "none" /\ pc # "drop_msgbox") =>
           opens = SelectSeq(urls, HasPdfExtension)

\* C9: the filter of dropEvent in every state of a drop, and the warning's end.
C9_DropFilter == [](C9_Filtering) /\ [][C9_WarningStep]_vars

\* The warning is up for a non-empty batch without a PDF path, on a session
\* that holds a Document.
C9_Witness ==
    /\ pc = "drop_msgbox"
    /\ urls = <<P_n, P_n>>
    /\ dialog = WarningBox
    /\ files_data # <<>>

(***************************************************************************)
(* C10: the file opened for an intake is closed on the success path and on *)
(* every failure path before the intake goes on to display or report;      *)
(* never is more than one file open, and whenever no extraction is in      *)
(* progress (between the files of a batch, after a drop or a clear, while  *)
(* a box is up) none is.                                                   *)
(***************************************************************************)
C10_HandleScoped ==
    /\ Len(handles) <= 1
    /\ pc \in {"add_reader", "add_loop"} => handles = <<file_path>>
    /\ pc \notin {"add_reader", "add_loop"} => handles = <<>>

\* The second file of a batch is open for reading after the first one failed.
C10_Witness ==
    /\ pc = "add_reader"
    /\ handler = "dropEvent"
    /\ idx > 2
    /\ reports # <<>>
    /\ handles = <<file_path>>

====
